---- MODULE Spec2Model ----
(***************************************************************************)
(* Model of bot.py: a command-line address book.  Strings are sequences of *)
(* one-character strings, so that strip(), isdigit() and len() are         *)
(* computed as Python computes them.  A datetime is a record               *)
(* [year, month, day, tod] where tod counts ticks since midnight.          *)
(***************************************************************************)
EXTENDS Integers, Sequences, FiniteSets, TLC

VARIABLES book, now, last, file, pc

vars == <<book, now, last, file, pc>>

(***************************************************************************)
(* Bounds of the model.                                                    *)
(***************************************************************************)
\* ticks of the clock per calendar day (tod = 0 is midnight)
TicksPerDay == 2
\* most phones a record holds in the explored runs
MaxPhones == 2
\* most whitespace characters put on either side of a generated phone string
MaxPad == 1
\* generated phone bodies have PhoneLen - LenSlack .. PhoneLen + LenSlack characters
LenSlack == 1
\* days the clock may advance past its starting day
MaxDays == 1

(***************************************************************************)
(* Program constants.                                                      *)
(***************************************************************************)
PhoneLen == 10
period_days == 7
MinYear == 1900

(***************************************************************************)
(* Characters and str methods.                                             *)
(***************************************************************************)
AsciiDigits == {"0", "1", "2", "3", "4", "5", "6", "7", "8", "9"}

\* "U+0663" stands for the single character ARABIC-INDIC DIGIT THREE, for
\* which str.isdigit() is true although it is not an ASCII digit.
UnicodeDigits == {"U+0663"}

\* characters removed by str.strip()
Whitespace == {" ", "\t"}

IsDigitChar(c) == c \in AsciiDigits \cup UnicodeDigits

\* str.isdigit(): non-empty and every character is a digit
IsDigit(s) == Len(s) > 0 /\ \A i \in 1..Len(s) : IsDigitChar(s[i])

RECURSIVE LStrip(_)
LStrip(s) == IF Len(s) > 0 /\ s[1] \in Whitespace THEN LStrip(Tail(s)) ELSE s

RECURSIVE RStrip(_)
RStrip(s) ==
    IF Len(s) > 0 /\ s[Len(s)] \in Whitespace
    THEN RStrip(SubSeq(s, 1, Len(s) - 1))
    ELSE s

\* str.strip()
Strip(s) == RStrip(LStrip(s))

\* Optional values: None is the empty tuple, a value v is <<v>>.
None == <<>>
Some(v) == <<v>>

(***************************************************************************)
(* Calendar arithmetic of datetime.                                        *)
(***************************************************************************)
IsLeap(y) == (y % 4 = 0 /\ y % 100 # 0) \/ y % 400 = 0

DaysInMonth(y, m) ==
    IF m = 2 THEN (IF IsLeap(y) THEN 29 ELSE 28)
    ELSE IF m \in {4, 6, 9, 11} THEN 30 ELSE 31

DaysBeforeYear(y) ==
    LET p == y - 1 IN p * 365 + (p \div 4) - (p \div 100) + (p \div 400)

RECURSIVE DaysBeforeMonth(_, _)
DaysBeforeMonth(y, m) ==
    IF m <= 1 THEN 0 ELSE DaysBeforeMonth(y, m - 1) + DaysInMonth(y, m - 1)

\* date.toordinal(): 0001-01-01 is day 1
ToOrdinal(d) == DaysBeforeYear(d.year) + DaysBeforeMonth(d.year, d.month) + d.day

\* datetime.weekday(): Monday is 0, Saturday 5, Sunday 6
Weekday(d) == (ToOrdinal(d) + 6) % 7

NextDay(d) ==
    IF d.day < DaysInMonth(d.year, d.month) THEN [d EXCEPT !.day = d.day + 1]
    ELSE IF d.month < 12 THEN [d EXCEPT !.month = d.month + 1, !.day = 1]
    ELSE [d EXCEPT !.year = d.year + 1, !.month = 1, !.day = 1]

\* dt + timedelta(days=n)
RECURSIVE AddDays(_, _)
AddDays(d, n) == IF n = 0 THEN d ELSE AddDays(NextDay(d), n - 1)

\* position of a datetime on the time line, in ticks
Ticks(dt) == ToOrdinal(dt) * TicksPerDay + dt.tod

\* dt1 < dt2
Before(dt1, dt2) == Ticks(dt1) < Ticks(dt2)

\* (dt1 - dt2).days: timedelta keeps the floor of the difference in days
DeltaDays(dt1, dt2) == (Ticks(dt1) - Ticks(dt2)) \div TicksPerDay

\* dt.replace(year=y): ValueError when the day does not exist in year y
ReplaceYear(dt, y) ==
    IF dt.day <= DaysInMonth(y, dt.month)
    THEN [ok |-> TRUE, value |-> [dt EXCEPT !.year = y]]
    ELSE [ok |-> FALSE, value |-> dt]

(***************************************************************************)
(* Field validators (Name, Phone, Birthday).  Only str arguments are       *)
(* modelled, so the isinstance tests are true.  A constructor yields       *)
(* [ok, value, err]: ok = FALSE is a raised ValueError with message err.   *)
(***************************************************************************)
\* Name without the strip of line 27
NameUnstripped(value) ==
    IF Strip(value) = <<>>
    THEN [ok |-> FALSE, value |-> <<>>, err |-> "Name must be a non-empty string."]
    ELSE [ok |-> TRUE, value |-> value, err |-> ""]

Name(value) ==
    IF Strip(value) = <<>>
    THEN [ok |-> FALSE, value |-> <<>>, err |-> "Name must be a non-empty string."]
    ELSE [ok |-> TRUE, value |-> Strip(value), err |-> ""]

\* Phone without the length test of lines 37-38
PhoneAnyLength(phone) ==
    IF Strip(phone) = <<>>
    THEN [ok |-> FALSE, value |-> <<>>, err |-> "Phone must be a non-empty string."]
    ELSE IF ~IsDigit(Strip(phone))
    THEN [ok |-> FALSE, value |-> <<>>, err |-> "Phone number must contain only digits."]
    ELSE [ok |-> TRUE, value |-> Strip(phone), err |-> ""]

Phone(phone) ==
    LET value == Strip(phone) IN
    IF Strip(phone) = <<>>
    THEN [ok |-> FALSE, value |-> <<>>, err |-> "Phone must be a non-empty string."]
    ELSE IF ~IsDigit(value)
    THEN [ok |-> FALSE, value |-> <<>>, err |-> "Phone number must contain only digits."]
    ELSE IF Len(value) # PhoneLen
    THEN [ok |-> FALSE, value |-> <<>>, err |-> "Phone number must be 10 digits long."]
    ELSE [ok |-> TRUE, value |-> value, err |-> ""]

\* fields of a string between its "." characters
RECURSIVE SplitDots(_, _)
SplitDots(s, cur) ==
    IF s = <<>> THEN <<cur>>
    ELSE IF Head(s) = "." THEN <<cur>> \o SplitDots(Tail(s), <<>>)
    ELSE SplitDots(Tail(s), Append(cur, Head(s)))

NonZeroDigits == AsciiDigits \ {"0"}

\* strptime's pattern for %d: 3[0-1]|[1-2]\d|0[1-9]|[1-9]| [1-9]
MatchesDay(f) ==
    \/ Len(f) = 1 /\ f[1] \in NonZeroDigits
    \/ /\ Len(f) = 2
       /\ \/ f[1] = "3" /\ f[2] \in {"0", "1"}
          \/ f[1] \in {"1", "2"} /\ f[2] \in AsciiDigits
          \/ f[1] \in {"0", " "} /\ f[2] \in NonZeroDigits

\* strptime's pattern for %m: 1[0-2]|0[1-9]|[1-9]
MatchesMonth(f) ==
    \/ Len(f) = 1 /\ f[1] \in NonZeroDigits
    \/ /\ Len(f) = 2
       /\ \/ f[1] = "1" /\ f[2] \in {"0", "1", "2"}
          \/ f[1] = "0" /\ f[2] \in NonZeroDigits

\* strptime's pattern for %Y: \d\d\d\d
MatchesYear(f) == Len(f) = 4 /\ \A i \in 1..4 : f[i] \in AsciiDigits

DigitVal(c) ==
    IF c \in AsciiDigits
    THEN CHOOSE n \in 0..9 : <<"0", "1", "2", "3", "4", "5", "6", "7", "8", "9">>[n + 1] = c
    ELSE 0

RECURSIVE ToInt(_)
ToInt(f) == IF f = <<>> THEN 0 ELSE 10 * ToInt(SubSeq(f, 1, Len(f) - 1)) + DigitVal(f[Len(f)])

\* datetime.strptime(value, "%d.%m.%Y"): midnight of the day written, or ValueError
Strptime(value) ==
    LET fs == SplitDots(value, <<>>) IN
    IF ~(Len(fs) = 3 /\ MatchesDay(fs[1]) /\ MatchesMonth(fs[2]) /\ MatchesYear(fs[3]))
    THEN [ok |-> FALSE, value |-> <<>>, err |-> "does not match format"]
    ELSE LET d == ToInt(fs[1])
             m == ToInt(fs[2])
             y == ToInt(fs[3])
         IN  IF y < 1 \/ d > DaysInMonth(y, m)
             THEN [ok |-> FALSE, value |-> <<>>, err |-> "day is out of range for month"]
             ELSE [ok |-> TRUE,
                   value |-> [year |-> y, month |-> m, day |-> d, tod |-> 0],
                   err |-> ""]

\* Birthday(value) constructed at the moment today = datetime.now()
Birthday(value, today) ==
    LET p == Strptime(value) IN
    IF ~p.ok
    THEN (IF p.err = "does not match format"
          THEN [ok |-> FALSE, value |-> <<>>, err |-> "Invalid date format. Use DD.MM.YYYY"]
          ELSE p)
    ELSE IF p.value.year < MinYear \/ Before(today, p.value)
    THEN [ok |-> FALSE, value |-> <<>>,
          err |-> "Year must be between 1900 and the current year."]
    ELSE p

(***************************************************************************)
(* Record: [name, phones, birthday]; birthday is None or Some(datetime).   *)
(* A method yields [status, msg, rec, ret]: status "ok" or the exception   *)
(* raised, rec the record afterwards, ret the value returned.              *)
(***************************************************************************)
NewRecord(name) == [name |-> name, phones |-> <<>>, birthday |-> None]

Raise(exc, msg, r) == [status |-> exc, msg |-> msg, rec |-> r, ret |-> None]

Return(r, ret) == [status |-> "ok", msg |-> "", rec |-> r, ret |-> ret]

add_phone(r, phone) ==
    LET p == Phone(phone) IN
    IF ~p.ok THEN Raise("ValueError", p.err, r)
    ELSE Return([r EXCEPT !.phones = Append(@, p.value)], None)

remove_phone(r, phone) ==
    LET phone_to_remove == Phone(phone)
        Keep(v) == v # phone_to_remove.value
    IN  IF ~phone_to_remove.ok THEN Raise("ValueError", phone_to_remove.err, r)
        ELSE Return([r EXCEPT !.phones = SelectSeq(@, Keep)], None)

find_phone(r, phone) ==
    IF Strip(phone) = <<>>
    THEN Raise("ValueError", "Phone must be a non-empty string.", r)
    ELSE IF \E i \in 1..Len(r.phones) : r.phones[i] = Strip(phone)
    THEN Return(r, Some(Strip(phone)))
    ELSE Return(r, None)

PhoneNotFoundMsg == "Phone number not found."

\* edit_phone that appends the new number and leaves the old one in place
edit_phone_appending(r, old_phone, new_phone) ==
    IF \A i \in 1..Len(r.phones) : r.phones[i] # old_phone
    THEN Raise("ValueError", PhoneNotFoundMsg, r)
    ELSE IF ~Phone(new_phone).ok THEN Raise("ValueError", Phone(new_phone).err, r)
    ELSE Return([r EXCEPT !.phones = Append(@, Phone(new_phone).value)], None)

edit_phone(r, old_phone, new_phone) ==
    LET hits == {i \in 1..Len(r.phones) : r.phones[i] = old_phone} IN
    IF hits = {} THEN Raise("ValueError", PhoneNotFoundMsg, r)
    ELSE LET i == CHOOSE j \in hits : \A k \in hits : j <= k
             p == Phone(new_phone)
         IN  IF ~p.ok THEN Raise("ValueError", p.err, r)
             ELSE Return([r EXCEPT !.phones[i] = p.value], None)

add_birthday(r, birthday, today) ==
    LET b == Birthday(birthday, today) IN
    IF ~b.ok THEN Raise("ValueError", b.err, r)
    ELSE Return([r EXCEPT !.birthday = Some(b.value)], None)

(***************************************************************************)
(* AddressBook: a dict, kept as the sequence of its items [key, rec] in    *)
(* insertion order.                                                        *)
(***************************************************************************)
Keys(b) == {b[i].key : i \in 1..Len(b)}

IndexOf(b, k) == CHOOSE i \in 1..Len(b) : b[i].key = k

Get(b, k) == b[IndexOf(b, k)].rec

\* self.data[k] = r
SetItem(b, k, r) ==
    IF k \in Keys(b)
    THEN [b EXCEPT ![IndexOf(b, k)] = [key |-> k, rec |-> r]]
    ELSE Append(b, [key |-> k, rec |-> r])

\* del self.data[k]
DelItem(b, k) ==
    LET i == IndexOf(b, k) IN SubSeq(b, 1, i - 1) \o SubSeq(b, i + 1, Len(b))

\* A method of the book yields [status, msg, book, ret].
BookRaise(exc, msg, b) == [status |-> exc, msg |-> msg, book |-> b, ret |-> None]

BookReturn(b, ret) == [status |-> "ok", msg |-> "", book |-> b, ret |-> ret]

add_record(b, record) == BookReturn(SetItem(b, record.name, record), None)

find(b, name) ==
    IF Strip(name) = <<>>
    THEN BookRaise("ValueError", "Name must be a non-empty string.", b)
    ELSE IF Strip(name) \notin Keys(b) THEN BookReturn(b, None)
    ELSE BookReturn(b, Some(Get(b, Strip(name))))

\* delete that looks the name up as given, without the strip of line 99
delete_unstripped(b, name) ==
    IF Strip(name) = <<>>
    THEN BookRaise("ValueError", "Name must be a non-empty string.", b)
    ELSE IF name \in Keys(b) THEN BookReturn(DelItem(b, name), None)
    ELSE BookRaise("KeyError", "Contact not found.", b)

delete(b, name) ==
    IF Strip(name) = <<>>
    THEN BookRaise("ValueError", "Name must be a non-empty string.", b)
    ELSE IF Strip(name) \in Keys(b) THEN BookReturn(DelItem(b, Strip(name)), None)
    ELSE BookRaise("KeyError", "Contact not found.", b)

(***************************************************************************)
(* The birthday query.                                                     *)
(***************************************************************************)
\* lines 118-122: the next occurrence of the birthday, or ValueError from replace()
BirthdayThisYear(birthday, today) ==
    LET this == ReplaceYear(birthday, today.year) IN
    IF ~this.ok THEN this
    ELSE IF Before(this.value, today) THEN ReplaceYear(this.value, today.year + 1)
    ELSE this

\* lines 126-130: the date of congratulation, moved off a weekend
CongratulationDate(birthday_this_year) ==
    IF Weekday(birthday_this_year) = 5 THEN AddDays(birthday_this_year, 2)
    ELSE IF Weekday(birthday_this_year) = 6 THEN AddDays(birthday_this_year, 1)
    ELSE birthday_this_year

\* the loop of get_upcoming_birthday from item i on, with the list built so far
RECURSIVE UpcomingLoop(_, _, _, _)
UpcomingLoop(b, today, i, upcoming) ==
    IF i > Len(b) THEN BookReturn(b, upcoming)
    ELSE LET user == b[i].rec IN
         IF user.birthday = None THEN UpcomingLoop(b, today, i + 1, upcoming)
         ELSE LET birthday_this_year == BirthdayThisYear(user.birthday[1], today) IN
              IF ~birthday_this_year.ok
              THEN BookRaise("ValueError", "day is out of range for month", b)
              ELSE IF DeltaDays(birthday_this_year.value, today) <= period_days
              THEN UpcomingLoop(b, today, i + 1, Append(upcoming, user))
              ELSE UpcomingLoop(b, today, i + 1, upcoming)

get_upcoming_birthday(b, today) == UpcomingLoop(b, today, 1, <<>>)

(***************************************************************************)
(* Commands.  A command body yields [status, msg, book, ret]; input_error  *)
(* turns a raised exception into a returned message.  What a body did to   *)
(* the book before it raised stays done.                                   *)
(***************************************************************************)
UsageMsg == "Invalid input. Format: ..."

Reply(b, msg) == [status |-> "ok", msg |-> msg, book |-> b, ret |-> None]

input_error(res) ==
    IF res.status = "ok" THEN res @@ [caught |-> ""]
    ELSE [status |-> "ok",
          msg |-> IF res.status = "ValueError" THEN UsageMsg
                  ELSE IF res.status = "IndexError" THEN "Invalid input. Format: phone <name>."
                  ELSE IF res.status = "KeyError" THEN "Contact not found."
                  ELSE "An unexpected error occurred",
          book |-> res.book,
          ret |-> None,
          caught |-> res.status]

\* lines 188-194 of add_contact, once name and phone are unpacked
AddContactTail(name, phone, b) ==
    LET found == find(b, name) IN
    IF found.status # "ok" THEN found
    ELSE LET n == Name(name)
             isNew == found.ret = None
             b1 == IF isNew THEN add_record(b, NewRecord(n.value)).book ELSE b
             message == IF isNew THEN "Contact added." ELSE "Contact updated."
         IN  IF isNew /\ ~n.ok THEN BookRaise("ValueError", n.err, b)
             ELSE IF phone = <<>> THEN Reply(b1, message)
             ELSE LET key == Strip(name)
                      r == add_phone(Get(b1, key), phone)
                  IN  IF r.status # "ok" THEN BookRaise(r.status, r.msg, b1)
                      ELSE Reply(SetItem(b1, key, r.rec), message)

add_contact(args, b) ==
    IF Len(args) < 2 THEN BookRaise("ValueError", "not enough values to unpack", b)
    ELSE AddContactTail(args[1], args[2], b)

change_contact(args, b) ==
    IF Len(args) # 3 THEN BookRaise("ValueError", "wrong number of values to unpack", b)
    ELSE LET name == args[1]
             old_phone == args[2]
             new_phone == args[3]
             found == find(b, name)
         IN  IF found.status # "ok" THEN found
             ELSE IF found.ret = None THEN Reply(b, "Contact not found.")
             ELSE LET record == found.ret[1]
                      user_phone == find_phone(record, old_phone)
                  IN  IF user_phone.status # "ok"
                      THEN BookRaise(user_phone.status, user_phone.msg, b)
                      ELSE IF user_phone.ret = None THEN Reply(b, PhoneNotFoundMsg)
                      ELSE LET r == edit_phone(record, old_phone, new_phone) IN
                           IF r.status # "ok" THEN BookRaise(r.status, r.msg, b)
                           ELSE Reply(SetItem(b, Strip(name), r.rec), "Contact updated.")

show_phone(args, b) ==
    IF Len(args) = 0 THEN BookRaise("IndexError", "list index out of range", b)
    ELSE LET found == find(b, args[1]) IN
         IF found.status # "ok" THEN found
         ELSE IF found.ret = None THEN Reply(b, "Contact not found.")
         ELSE BookReturn(b, found.ret)

add_birthday_cmd(args, b, today) ==
    IF Len(args) # 2 THEN BookRaise("ValueError", "wrong number of values to unpack", b)
    ELSE LET found == find(b, args[1]) IN
         IF found.status # "ok" THEN found
         ELSE IF found.ret = None THEN Reply(b, "Contact not found.")
         ELSE LET r == add_birthday(found.ret[1], args[2], today) IN
              IF r.status # "ok" THEN BookRaise(r.status, r.msg, b)
              ELSE Reply(SetItem(b, Strip(args[1]), r.rec), "Birthday added.")

contact_birthday(args, b) ==
    IF Len(args) = 0 THEN BookRaise("IndexError", "list index out of range", b)
    ELSE LET found == find(b, args[1]) IN
         IF found.status # "ok" THEN found
         ELSE IF found.ret = None THEN Reply(b, "Contact not found.")
         ELSE IF found.ret[1].birthday = None THEN Reply(b, "Birthday not set.")
         ELSE BookReturn(b, Some([name |-> found.ret[1].name,
                                  day |-> found.ret[1].birthday[1].day,
                                  month |-> found.ret[1].birthday[1].month,
                                  year |-> found.ret[1].birthday[1].year]))

\* line 253: the line printed for a record, its name and its birthday as %d.%m
BirthdayLine(record) ==
    [name |-> record.name,
     day |-> record.birthday[1].day,
     month |-> record.birthday[1].month]

\* upcoming_birthdays: ret is the sequence of lines printed
upcoming_birthdays(b, today) ==
    LET res == get_upcoming_birthday(b, today) IN
    IF res.status # "ok" THEN res
    ELSE BookReturn(b, [i \in 1..Len(res.ret) |-> BirthdayLine(res.ret[i])])

\* show_all: ret is the sequence of records printed
show_all(b) == BookReturn(b, [i \in 1..Len(b) |-> b[i].rec])

(***************************************************************************)
(* Persistence.  The file is [state, content]: missing, corrupt (it cannot *)
(* be unpickled) or valid, holding the book that was pickled.  One file is *)
(* modelled: a file name given to save or load names that same file.       *)
(***************************************************************************)
NoFile == [state |-> "missing", content |-> <<>>]

Damaged == [state |-> "corrupt", content |-> <<>>]

Pickled(b) == [state |-> "valid", content |-> b]

\* load_data: only FileNotFoundError is caught
load_data(f) ==
    IF f.state = "missing" THEN BookReturn(<<>>, None)
    ELSE IF f.state = "valid" THEN BookReturn(f.content, None)
    ELSE BookRaise("UnpicklingError", "could not unpickle", <<>>)

\* AddressBook.load: on a missing file the user is asked, and only "y" or "Y"
\* gives an empty book
load(b, f, create_new) ==
    IF f.state = "valid" THEN BookReturn(f.content, None)
    ELSE IF f.state = "missing"
    THEN (IF create_new \in {"y", "Y"} THEN BookReturn(<<>>, None) ELSE BookReturn(b, None))
    ELSE BookRaise("UnpicklingError", "could not unpickle", b)

(***************************************************************************)
(* State machine.  last records the call just made: its name, arguments    *)
(* and outcome (status is the exception that escaped the call, caught the  *)
(* exception input_error turned into a message), and the book before it.   *)
(* pc is the program's position: "start" before load_data, "running" when  *)
(* it waits for the next command or call, "replied" when one has just been *)
(* carried out, "crashed" after an exception escaped main, "exited" after  *)
(* close or exit.                                                          *)
(***************************************************************************)
Call(op, args, res) ==
    [op |-> op, args |-> args, status |-> res.status, caught |-> "",
     msg |-> res.msg, ret |-> res.ret, before |-> book]

Command(op, args, res) ==
    [op |-> op, args |-> args, status |-> res.status, caught |-> res.caught,
     msg |-> res.msg, ret |-> res.ret, before |-> book]

Quiet(op) ==
    [op |-> op, args |-> <<>>, status |-> "ok", caught |-> "",
     msg |-> "", ret |-> None, before |-> <<>>]

WithinBounds(b) == \A i \in 1..Len(b) : Len(b[i].rec.phones) <= MaxPhones

\* the calling code applies a method of the book
BookCall(op, args, res) ==
    /\ pc = "running"
    /\ WithinBounds(res.book)
    /\ book' = res.book
    /\ last' = Call(op, args, res)
    /\ pc' = "replied"
    /\ UNCHANGED <<now, file>>

\* the calling code applies a method of the record stored under key k
RecordCall(op, k, args, res) ==
    /\ pc = "running"
    /\ k \in Keys(book)
    /\ WithinBounds(SetItem(book, k, res.rec))
    /\ book' = SetItem(book, k, res.rec)
    /\ last' = Call(op, <<k>> \o args, res)
    /\ pc' = "replied"
    /\ UNCHANGED <<now, file>>

\* main dispatches a command wrapped by input_error
RunCommand(op, args, res) ==
    /\ pc = "running"
    /\ WithinBounds(res.book)
    /\ book' = res.book
    /\ last' = Command(op, args, input_error(res))
    /\ pc' = "replied"
    /\ UNCHANGED <<now, file>>

\* book.add_record(Record(name))
AddRecordCall(name) ==
    LET n == Name(name) IN
    BookCall("add_record", <<name>>,
             IF ~n.ok THEN BookRaise("ValueError", n.err, book)
             ELSE add_record(book, NewRecord(n.value)))

FindCall(name) == BookCall("find", <<name>>, find(book, name))

DeleteCall(name) == BookCall("delete", <<name>>, delete(book, name))

GetUpcomingBirthdayCall ==
    BookCall("get_upcoming_birthday", <<>>, get_upcoming_birthday(book, now))

AddPhoneCall(k, phone) ==
    /\ k \in Keys(book)
    /\ RecordCall("add_phone", k, <<phone>>, add_phone(Get(book, k), phone))

RemovePhoneCall(k, phone) ==
    /\ k \in Keys(book)
    /\ RecordCall("remove_phone", k, <<phone>>, remove_phone(Get(book, k), phone))

FindPhoneCall(k, phone) ==
    /\ k \in Keys(book)
    /\ RecordCall("find_phone", k, <<phone>>, find_phone(Get(book, k), phone))

EditPhoneCall(k, old_phone, new_phone) ==
    /\ k \in Keys(book)
    /\ RecordCall("edit_phone", k, <<old_phone, new_phone>>,
                  edit_phone(Get(book, k), old_phone, new_phone))

AddBirthdayCall(k, birthday) ==
    /\ k \in Keys(book)
    /\ RecordCall("add_birthday", k, <<birthday>>, add_birthday(Get(book, k), birthday, now))

AddCmd(args) == RunCommand("add", args, add_contact(args, book))

ChangeCmd(args) == RunCommand("change", args, change_contact(args, book))

PhoneCmd(args) == RunCommand("phone", args, show_phone(args, book))

AddBirthdayCmd(args) == RunCommand("add-birthday", args, add_birthday_cmd(args, book, now))

ShowBirthdayCmd(args) == RunCommand("show-birthday", args, contact_birthday(args, book))

BirthdaysCmd == RunCommand("birthdays", <<>>, upcoming_birthdays(book, now))

AllCmd == RunCommand("all", <<>>, show_all(book))

\* main starts: book = load_data(); an exception other than FileNotFoundError ends it
Startup ==
    LET res == load_data(file) IN
    /\ pc = "start"
    /\ book' = res.book
    /\ pc' = IF res.status = "ok" THEN "running" ELSE "crashed"
    /\ last' = Call("load_data", <<>>, res)
    /\ UNCHANGED <<now, file>>

\* the save command: book.save(args) is not wrapped by input_error, and
\* "filename, *_ = args" raises ValueError when no file name is given
SaveCmd(args) ==
    /\ pc = "running"
    /\ IF Len(args) = 0
       THEN /\ pc' = "crashed"
            /\ last' = Call("save", args, BookRaise("ValueError", "not enough values to unpack", book))
            /\ UNCHANGED file
       ELSE /\ file' = Pickled(book)
            /\ last' = Call("save", args, BookReturn(book, None))
            /\ pc' = "replied"
    /\ UNCHANGED <<book, now>>

\* the load command: book = book.load(args), not wrapped by input_error
LoadCmd(args, create_new) ==
    LET res == load(book, file, create_new) IN
    /\ pc = "running"
    /\ book' = res.book
    /\ pc' = IF res.status = "ok" THEN "replied" ELSE "crashed"
    /\ last' = Call("load", args, res)
    /\ UNCHANGED <<now, file>>

\* close / exit: save_data(book), then the loop ends
ExitCmd ==
    /\ pc = "running"
    /\ file' = Pickled(book)
    /\ pc' = "exited"
    /\ last' = Quiet("exit")
    /\ UNCHANGED <<book, now>>

\* the loop of main comes back to its prompt
Prompt ==
    /\ pc = "replied"
    /\ pc' = "running"
    /\ last' = Quiet("prompt")
    /\ UNCHANGED <<book, now, file>>

\* the user starts the program again
Restart ==
    /\ pc \in {"exited", "crashed"}
    /\ pc' = "start"
    /\ book' = <<>>
    /\ last' = Quiet("restart")
    /\ UNCHANGED <<now, file>>

\* the file is damaged or removed outside the program
DamageFile ==
    /\ pc # "replied"
    /\ file.state = "valid"
    /\ file' = Damaged
    /\ last' = Quiet("damage")
    /\ UNCHANGED <<book, now, pc>>

RemoveFile ==
    /\ pc # "replied"
    /\ file.state # "missing"
    /\ file' = NoFile
    /\ last' = Quiet("remove")
    /\ UNCHANGED <<book, now, pc>>

(***************************************************************************)
(* The clock.                                                              *)
(***************************************************************************)
ClockStarts ==
    { [year |-> 2024, month |-> 6, day |-> 10],
      [year |-> 2023, month |-> 12, day |-> 27] }

NextTick(dt) ==
    IF dt.tod + 1 < TicksPerDay THEN [dt EXCEPT !.tod = dt.tod + 1]
    ELSE [NextDay(dt) EXCEPT !.tod = 0]

InWindow(dt) ==
    \E s \in ClockStarts :
        ToOrdinal(s) <= ToOrdinal(dt) /\ ToOrdinal(dt) <= ToOrdinal(s) + MaxDays

\* time is seen to pass between two commands: a command reads the clock once
Tick ==
    /\ pc # "replied"
    /\ InWindow(NextTick(now))
    /\ now' = NextTick(now)
    /\ last' = Quiet("tick")
    /\ UNCHANGED <<book, file, pc>>

(***************************************************************************)
(* Inputs of the explored runs.                                            *)
(***************************************************************************)
Rep(c, n) == [i \in 1..n |-> c]

P1 == Rep("1", PhoneLen)
P2 == Rep("2", PhoneLen)
ShortPhone == Rep("1", PhoneLen - 1)
NameA == <<"A">>
NameB == <<"B">>

DigitChar(n) == <<"0", "1", "2", "3", "4", "5", "6", "7", "8", "9">>[n + 1]

Pad2(n) == <<DigitChar(n \div 10), DigitChar(n % 10)>>

\* the text DD.MM.YYYY a user types for a day
FmtDate(d, m, y) ==
    Pad2(d) \o <<".">> \o Pad2(m) \o <<".">> \o Pad2(y \div 100) \o Pad2(y % 100)

\* names given to the methods directly, with and without surrounding blanks
RawNames == {NameA, NameB, <<" ", "A", "\t">>, <<" ">>}

\* words of a command line: split() leaves no whitespace in them
NameTokens == {NameA, NameB}
PhoneTokens == {P1, P2, ShortPhone}
RawPhones == PhoneTokens \cup {<<" ">> \o P1}

\* a valid day, a day April does not have, a day in the future, another format
BirthdayTokens ==
    { FmtDate(15, 6, 1990), FmtDate(31, 4, 1990), FmtDate(1, 1, 2999),
      <<"1", "9", "9", "0", "-", "0", "6", "-", "1", "5">> }

AddArgs == {<<n, p>> : n \in NameTokens, p \in PhoneTokens} \cup {<<NameA>>}

ChangeArgs ==
    {<<n, o, p>> : n \in NameTokens, o \in {P1, P2}, p \in PhoneTokens} \cup {<<NameA, P1>>}

LookupArgs == {<<n>> : n \in NameTokens} \cup {<<>>}

AddBirthdayArgs == {<<n, d>> : n \in NameTokens, d \in BirthdayTokens} \cup {<<NameA>>}

\* birthdays around the days the clock starts on, and a 29 February
WindowBirthdays ==
    { FmtDate(10, 6, 1990), FmtDate(15, 6, 1990), FmtDate(16, 6, 1990),
      FmtDate(17, 6, 1990), FmtDate(18, 6, 1990), FmtDate(3, 1, 1990),
      FmtDate(4, 1, 1990), FmtDate(29, 2, 2000) }

\* generated phone strings: runs of a digit of several lengths, and runs of
\* the right length with one character replaced, all between blanks
Replace(s, k, c) == [s EXCEPT ![k] = c]

UnicodePhone == Replace(P1, 1, "U+0663")

Bodies ==
    {Rep("1", n) : n \in (PhoneLen - LenSlack)..(PhoneLen + LenSlack)}
    \cup {P2, UnicodePhone, Replace(P1, 1, "x"), Replace(P1, PhoneLen, "x"),
          Replace(P1, PhoneLen \div 2, " "), <<>>}

PhoneFamily ==
    {Rep(" ", l) \o body \o Rep("\t", r) : l \in 0..MaxPad, r \in 0..MaxPad, body \in Bodies}

\* old numbers asked of edit_phone: stored forms, and one padded with a blank
OldPhones == {P1, P2, UnicodePhone, <<" ">> \o P1}

FileArg == <<"b", "o", "o", "k", ".", "p", "k", "l">>

(***************************************************************************)
(* Specifications.                                                         *)
(***************************************************************************)
Midnight(d) == [year |-> d.year, month |-> d.month, day |-> d.day, tod |-> 0]

\* the day the runs without a clock are made on
Today == Midnight([year |-> 2024, month |-> 6, day |-> 10])

\* the program is running on the empty book that a missing file gives
Init ==
    /\ book = <<>>
    /\ now = Today
    /\ file = NoFile
    /\ pc = "running"
    /\ last = Quiet("init")

\* the address book and its records, through the methods and the commands
Next ==
    \/ \E name \in RawNames : AddRecordCall(name)
    \/ \E name \in RawNames : FindCall(name)
    \/ \E name \in RawNames : DeleteCall(name)
    \/ \E k \in NameTokens, phone \in RawPhones : AddPhoneCall(k, phone)
    \/ \E k \in NameTokens, phone \in RawPhones : RemovePhoneCall(k, phone)
    \/ \E k \in NameTokens, phone \in RawPhones : FindPhoneCall(k, phone)
    \/ \E k \in NameTokens, old \in {P1, P2}, new \in RawPhones : EditPhoneCall(k, old, new)
    \/ \E k \in NameTokens, birthday \in BirthdayTokens : AddBirthdayCall(k, birthday)
    \/ \E args \in AddArgs : AddCmd(args)
    \/ \E args \in ChangeArgs : ChangeCmd(args)
    \/ \E args \in LookupArgs : PhoneCmd(args)
    \/ \E args \in AddBirthdayArgs : AddBirthdayCmd(args)
    \/ \E args \in LookupArgs : ShowBirthdayCmd(args)
    \/ AllCmd
    \/ Prompt

Spec == Init /\ [][Next]_vars

\* one record and its phones, with the generated phone strings
NextPhones ==
    \/ AddRecordCall(NameA)
    \/ \E phone \in PhoneFamily : AddPhoneCall(NameA, phone)
    \/ \E phone \in PhoneFamily : RemovePhoneCall(NameA, phone)
    \/ \E phone \in PhoneFamily : FindPhoneCall(NameA, phone)
    \/ \E old \in OldPhones, new \in PhoneFamily : EditPhoneCall(NameA, old, new)
    \/ Prompt

SpecPhones == Init /\ [][NextPhones]_vars

\* birthdays and the query for the coming ones, as the clock advances
NextBirthdays ==
    \/ \E name \in NameTokens : AddCmd(<<name, P1>>)
    \/ \E name \in NameTokens, d \in WindowBirthdays : AddBirthdayCmd(<<name, d>>)
    \/ GetUpcomingBirthdayCall
    \/ BirthdaysCmd
    \/ Tick
    \/ Prompt

InitBirthdays ==
    /\ book = <<>>
    /\ now \in {Midnight(s) : s \in ClockStarts}
    /\ file = NoFile
    /\ pc = "running"
    /\ last = Quiet("init")

SpecBirthdays == InitBirthdays /\ [][NextBirthdays]_vars

\* the program's life with its file: start, save, load, exit, start again
InitLoad ==
    /\ book = <<>>
    /\ now = Today
    /\ file \in {NoFile, Damaged}
    /\ pc = "start"
    /\ last = Quiet("init")

NextLoad ==
    \/ Startup
    \/ \E name \in NameTokens : AddCmd(<<name, P1>>)
    \/ \E args \in {<<>>, <<FileArg>>} : SaveCmd(args)
    \/ \E args \in {<<>>, <<FileArg>>}, create_new \in {"y", "Y", "n"} : LoadCmd(args, create_new)
    \/ ExitCmd
    \/ Restart
    \/ DamageFile
    \/ RemoveFile
    \/ Prompt

SpecLoad == InitLoad /\ [][NextLoad]_vars

(***************************************************************************)
(* Properties.                                                             *)
(***************************************************************************)
HasBirthday(r) == r.birthday # None

\* a record of the given name is in a list of records or of printed lines
Listed(list, name) == \E j \in 1..Len(list) : list[j].name = name

\* calendar days from the day of today to the next occurrence of the
\* birthday's month and day, the day of today counting as 0
DaysAhead(birthday, today) ==
    LET this == [year |-> today.year, month |-> birthday.month, day |-> birthday.day]
        next == [this EXCEPT !.year = today.year + 1]
    IN  IF ToOrdinal(this) < ToOrdinal(today)
        THEN ToOrdinal(next) - ToOrdinal(today)
        ELSE ToOrdinal(this) - ToOrdinal(today)

QueryReturned == last.op = "get_upcoming_birthday" /\ last.status = "ok"

\* C1: when get_upcoming_birthday returns, at whatever time of the day, a
\* record whose next birthday is exactly 7 calendar days ahead is in the
\* result and one whose next birthday is exactly 8 days ahead is not.
C1_WindowBoundary ==
    QueryReturned =>
        \A i \in 1..Len(book) :
            HasBirthday(book[i].rec) =>
                LET ahead == DaysAhead(book[i].rec.birthday[1], now) IN
                /\ ahead = period_days => Listed(last.ret, book[i].rec.name)
                /\ ahead = period_days + 1 => ~Listed(last.ret, book[i].rec.name)

\* C2: when get_upcoming_birthday returns, a birthday whose month and day
\* are those of today is projected onto this year, counts 0 days and is in
\* the result; and no record's count of days is negative.
C2_TodayIncluded ==
    QueryReturned =>
        \A i \in 1..Len(book) :
            HasBirthday(book[i].rec) =>
                LET birthday == book[i].rec.birthday[1]
                    projected == BirthdayThisYear(birthday, now).value
                IN  /\ DeltaDays(projected, now) >= 0
                    /\ (birthday.month = now.month /\ birthday.day = now.day) =>
                           /\ projected.year = now.year
                           /\ DeltaDays(projected, now) = 0
                           /\ Listed(last.ret, book[i].rec.name)

\* C3: for every record the birthdays command lists, the date shown is the
\* projected birthday moved to the Monday after when it falls on a Saturday
\* or a Sunday, and the projected birthday itself otherwise.
C3_ShiftedDateReported ==
    (last.op = "birthdays" /\ last.caught = "") =>
        \A j \in 1..Len(last.ret) :
            \A i \in 1..Len(book) :
                book[i].rec.name = last.ret[j].name =>
                    LET projected == BirthdayThisYear(book[i].rec.birthday[1], now).value
                        shown == CongratulationDate(projected)
                    IN  /\ Weekday(shown) \in 0..4
                        /\ last.ret[j].day = shown.day
                        /\ last.ret[j].month = shown.month

\* C10: get_upcoming_birthday returns without raising, whatever validated
\* birthdays the records hold (every birthday of the book was accepted by
\* Birthday when it was set).
C10_QueryNeverRaises ==
    last.op = "get_upcoming_birthday" => last.status = "ok"

Occurrences(phones, v) == Cardinality({i \in 1..Len(phones) : phones[i] = v})

EditedRecord == Get(book, last.args[1])

RecordBefore == Get(last.before, last.args[1])

\* C4 as claimed: edit_phone(old, new) raises "Phone number not found." when no
\* stored phone equals old; when one does and new is valid, afterwards
\* find_phone(new) returns new and find_phone(old) returns None.
C4_EditPhoneAsClaimed ==
    last.op = "edit_phone" =>
        LET old == last.args[2]
            new == last.args[3]
        IN  IF Occurrences(RecordBefore.phones, old) = 0
            THEN last.status = "ValueError" /\ last.msg = PhoneNotFoundMsg
            ELSE Phone(new).ok =>
                     /\ last.status = "ok"
                     /\ find_phone(EditedRecord, new).ret = Some(new)
                     /\ find_phone(EditedRecord, old).ret = None

\* C4 amended: edit_phone(old, new) raises "Phone number not found." and
\* leaves the phones as they were when no stored phone equals old; when one
\* does and new is valid, afterwards find_phone(new) returns new stripped of
\* surrounding whitespace, and find_phone(old) returns None provided old was
\* stored exactly once and differs from the stripped new.
C4_EditPhone ==
    last.op = "edit_phone" =>
        LET old == last.args[2]
            new == last.args[3]
        IN  IF Occurrences(RecordBefore.phones, old) = 0
            THEN /\ last.status = "ValueError"
                 /\ last.msg = PhoneNotFoundMsg
                 /\ EditedRecord = RecordBefore
            ELSE Phone(new).ok =>
                     /\ last.status = "ok"
                     /\ find_phone(EditedRecord, new).ret = Some(Strip(new))
                     /\ (Occurrences(RecordBefore.phones, old) = 1 /\ Strip(new) # old) =>
                            find_phone(EditedRecord, old).ret = None

\* an edit that replaced the only occurrence of a number by another number,
\* in a record that holds a second phone
C4_Witness ==
    /\ last.op = "edit_phone"
    /\ last.status = "ok"
    /\ Occurrences(RecordBefore.phones, last.args[2]) = 1
    /\ Strip(last.args[3]) # last.args[2]
    /\ Len(EditedRecord.phones) = 2

TenAsciiDigits(s) == Len(s) = PhoneLen /\ \A i \in 1..Len(s) : s[i] \in AsciiDigits

TenDigits(s) == Len(s) = PhoneLen /\ \A i \in 1..Len(s) : IsDigitChar(s[i])

AllPhones(P(_)) ==
    \A i \in 1..Len(book) : \A j \in 1..Len(book[i].rec.phones) : P(book[i].rec.phones[j])

C6_Delete ==
    (last.op = "delete" /\ Strip(last.args[1]) # <<>>) =>
        LET key == Strip(last.args[1])
            Other(item) == item.key # key
        IN  IF key \notin Keys(last.before)
            THEN last.status = "KeyError" /\ book = last.before
            ELSE /\ last.status = "ok"
                 /\ book = SelectSeq(last.before, Other)
                 /\ Len(book) = Len(last.before) - 1
                 /\ find(book, last.args[1]).status = "ok"
                 /\ find(book, last.args[1]).ret = None

\* a name given with surrounding whitespace was deleted and another stayed
C6_Witness ==
    /\ last.op = "delete"
    /\ last.status = "ok"
    /\ last.args[1] # Strip(last.args[1])
    /\ Len(book) = 1

\* C7: every key of the book is the name of the record stored under it, and
\* that name is stripped and not empty; no key occurs twice; and after
\* add_record, find with the same name, given bare or with surrounding
\* whitespace, returns a record of that name.
C7_KeysAreNames ==
    /\ \A i \in 1..Len(book) :
           /\ book[i].key = book[i].rec.name
           /\ book[i].key = Strip(book[i].key)
           /\ book[i].key # <<>>
           /\ \A j \in 1..Len(book) : book[j].key = book[i].key => j = i
    /\ (last.op = "add_record" /\ last.status = "ok") =>
           \A q \in {last.args[1], Strip(last.args[1]), <<" ">> \o last.args[1] \o <<"\t">>} :
               /\ find(book, q).status = "ok"
               /\ find(book, q).ret # None
               /\ find(book, q).ret[1].name = Strip(last.args[1])

\* a record was added under a name given with surrounding whitespace, to a
\* book that holds another record with a phone and a birthday
C7_Witness ==
    /\ last.op = "add_record"
    /\ last.status = "ok"
    /\ last.args[1] # Strip(last.args[1])
    /\ \E i \in 1..Len(book) :
           /\ book[i].key # Strip(last.args[1])
           /\ book[i].rec.phones # <<>>
           /\ book[i].rec.birthday # None

\* C8: load_data and the load command give an empty book and raise nothing
\* when the file is missing, and never end the program: a file that cannot
\* be unpickled leaves it running.
C8_LoadSurvives ==
    last.op \in {"load_data", "load"} =>
        /\ pc # "crashed"
        /\ file.state = "missing" => last.status = "ok" /\ book = <<>>

\* C9: a command that ended in a ValueError turned into the usage message
\* left the book as it was.
C9_ErrorLeavesBook ==
    (last.op \in {"add", "change", "add-birthday"} /\ last.caught = "ValueError") =>
        /\ last.msg = UsageMsg
        /\ book = last.before

====
